---- MODULE Spec2Model ----
(***************************************************************************)
(* go-idempotency: the idempotency middleware (Middleware, defaultKeyFunc, *)
(* responseRecorder, writeCachedResponse), the in-memory store             *)
(* (MemoryStore: Get, Set, Lock, cleanup) and the Redis store's lock       *)
(* (RedisStore.Lock), as state machines.                                   *)
(*                                                                         *)
(* Byte strings are TLA+ strings, joined with \o.                          *)
(*                                                                         *)
(* Specifications: Spec, SpecReplay, SpecAll and SpecLive are the          *)
(* middleware over MemoryStore under different workloads (SpecLive with    *)
(* progress of Lock); SpecFaulty is the middleware over a Store whose      *)
(* Lock, Get and Set may return an error, as RedisStore's do; SpecKey is   *)
(* defaultKeyFunc alone; SpecStore is MemoryStore's Get, Set and sweep     *)
(* called directly; SpecRedis and SpecRedisLive are RedisStore.Lock.       *)
(*                                                                         *)
(* Timing assumptions.  Time is a discrete clock `now`; the TTL is a       *)
(* number of ticks, and a tick is long against the middleware's own steps  *)
(* and against the 100ms wait of MemoryStore.Lock: the clock advances only *)
(* while the wrapped handler runs or between requests, never across a step *)
(* of the middleware or a pending Lock call.  A goroutine that finds its   *)
(* mutex free takes it before the 100ms timer of its caller fires, so the  *)
(* timer fires only on a caller whose goroutine is blocked behind another  *)
(* holder of the mutex.                                                    *)
(***************************************************************************)
EXTENDS Integers, Sequences, FiniteSets, TLC

VARIABLES
    cfg,      \* the workload of the run: requests, request menu, handler scripts
    now,      \* the wall clock (time.Now())
    data,     \* MemoryStore.data : fullKey -> entry
    locks,    \* MemoryStore.locks: fullKey -> mutex (0 unlocked, r locked by r's goroutine)
    pc,       \* per request: position in the Middleware closure
    rq,       \* per request: the *http.Request (method, header value, path, body)
    fullKey,  \* per request: the key KeyFunc returned
    gor,      \* per request: the goroutine Lock spawned (none, blocked, done)
    w,        \* per request: the http.ResponseWriter handed to the middleware
    rec,      \* per request: the responseRecorder wrapped around w
    cached,   \* per request: the local variable `cached` of the closure
    invoked,  \* per request: calls of next.ServeHTTP
    hist,     \* per request: history of the run (observation only)
    stored,   \* per fullKey: expiry of the last Set (observation only)
    kf,       \* inputs and outputs of defaultKeyFunc (specification SpecKey)
    rds,      \* the Redis server: lock key -> entry (specification SpecRedis)
    rcl,      \* the Redis clients: per caller, per key, state of its Lock call
    ms        \* calls of MemoryStore.Get and Set made directly (specification SpecStore)

vars == <<cfg, now, data, locks, pc, rq, fullKey, gor, w, rec, cached, invoked,
          hist, stored, kf, rds, rcl, ms>>

mwVars == <<cfg, now, data, locks, pc, rq, fullKey, gor, w, rec, cached, invoked,
           hist, stored>>
kfVars == <<kf>>
rdVars == <<rds, rcl>>
msVars == <<ms>>

-----------------------------------------------------------------------------
(* Bounds of the model *)

NReq == 3          \* requests of one run
NCallers == 3      \* callers of RedisStore.Lock
MaxTime == 3       \* the clock runs from 0 to MaxTime
MaxCalls == 2      \* calls a handler makes on its ResponseWriter
MaxFaults == 1     \* failed operations of the backend in one run

(* Program constants, in ticks *)

ConfigTTL == 2     \* config.TTL (WithTTL): lifetime of a cached response
RedisLockTTL == 3  \* the 30s of RedisStore.Lock's SetNX, in ticks of 10s

-----------------------------------------------------------------------------
(* HTTP status codes *)

StatusOK == 200
StatusBadRequest == 400
StatusConflict == 409
StatusInternalServerError == 500

CachedMarker == "X-Idempotency-Cached"

NoReq == [method |-> "", key |-> "", path |-> "", body |-> "", bodyErr |-> FALSE]

Req == 1..NReq

-----------------------------------------------------------------------------
(* The http.ResponseWriter of net/http (and of httptest.ResponseRecorder):  *)
(* the first WriteHeader fixes the status and the headers sent, later calls *)
(* are ignored; a Write before any WriteHeader sends 200 first; a handler   *)
(* that returns without writing gets 200.                                   *)

NewWriter == [wroteHeader |-> FALSE, status |-> 0, header |-> {}, sent |-> {}, body |-> ""]

\* w.Header().Set(name, ...): the header map, sent with the first WriteHeader
WSetHeader(ws, name) == [ws EXCEPT !.header = @ \cup {name}]

WWriteHeader(ws, code) ==
    IF ws.wroteHeader THEN ws
    ELSE [ws EXCEPT !.wroteHeader = TRUE, !.status = code, !.sent = ws.header]

WWrite(ws, b) ==
    LET h == WWriteHeader(ws, StatusOK) IN [h EXCEPT !.body = @ \o b]

WFinish(ws) == WWriteHeader(ws, StatusOK)

HttpError(ws, msg, code) == WWrite(WWriteHeader(ws, code), msg)

-----------------------------------------------------------------------------
(* responseRecorder *)

NoRecorder == [statusCode |-> 0, body |-> ""]

NewRecorder == [statusCode |-> StatusOK, body |-> ""]

\* rw = [rec |-> responseRecorder, w |-> the embedded ResponseWriter]
\* Header() is the embedded writer's
RecSetHeader(rw, name) == [rec |-> rw.rec, w |-> WSetHeader(rw.w, name)]

RecWriteHeader(rw, code) ==
    [rec |-> [rw.rec EXCEPT !.statusCode = code], w |-> WWriteHeader(rw.w, code)]

RecWrite(rw, b) ==
    [rec |-> [rw.rec EXCEPT !.body = @ \o b], w |-> WWrite(rw.w, b)]

-----------------------------------------------------------------------------
(* The wrapped handler: any sequence of at most MaxCalls calls on its writer *)

HandlerCodes == {201, 500}
HandlerChunks == {"x"}
HandlerHeaders == {"Content-Type"}

Calls == [op : {"WriteHeader"}, code : HandlerCodes, b : {""}]
         \cup [op : {"Write"}, code : {0}, b : HandlerChunks]
         \cup [op : {"Header"}, code : {0}, b : HandlerHeaders]

AllScripts == UNION {[1..n -> Calls] : n \in 0..MaxCalls}

\* the handler of the repository's tests: WriteHeader, then Write
PlainScripts ==
    {<<[op |-> "WriteHeader", code |-> 201, b |-> ""], [op |-> "Write", code |-> 0, b |-> "x"]>>}

\* two handlers: the tests', and one that sets a header and writes a body
\* without calling WriteHeader
SomeScripts ==
    PlainScripts
    \cup {<<[op |-> "Header", code |-> 0, b |-> "Content-Type"],
            [op |-> "Write", code |-> 0, b |-> "x"]>>}

SetsStatus(script) == \E i \in DOMAIN script : script[i].op = "WriteHeader"

RECURSIVE RunRecorded(_, _)
RunRecorded(rw, script) ==
    IF script = <<>> THEN [rec |-> rw.rec, w |-> WFinish(rw.w)]
    ELSE LET c == Head(script)
             nx == IF c.op = "WriteHeader" THEN RecWriteHeader(rw, c.code)
                   ELSE IF c.op = "Write" THEN RecWrite(rw, c.b)
                   ELSE RecSetHeader(rw, c.b)
         IN RunRecorded(nx, Tail(script))

RECURSIVE RunDirect(_, _)
RunDirect(ws, script) ==
    IF script = <<>> THEN WFinish(ws)
    ELSE LET c == Head(script)
             nx == IF c.op = "WriteHeader" THEN WWriteHeader(ws, c.code)
                   ELSE IF c.op = "Write" THEN WWrite(ws, c.b)
                   ELSE WSetHeader(ws, c.b)
         IN RunDirect(nx, Tail(script))

-----------------------------------------------------------------------------
(* Fingerprinting *)

\* mutant: PATCH forgotten
isIdempotentMethod_NoPatch(method) == method \in {"POST", "PUT"}

isIdempotentMethod(method) == method \in {"POST", "PATCH", "PUT"}

\* SHA-256 in hex, taken as collision-free: distinct inputs, distinct digests
Sha256Hex(bytes) == "sha256(" \o bytes \o ")"

Fingerprint(method, path, body) == Sha256Hex(method \o path \o body)

\* mutant: the error of io.ReadAll ignored, the key made of what was read
defaultKeyFunc_NoErr(r, idempotencyKey) ==
    [err |-> FALSE,
     key |-> idempotencyKey \o ":" \o Fingerprint(r.method, r.path, r.body)]

\* [err, key]: err is TRUE when the body cannot be read
defaultKeyFunc(r, idempotencyKey) ==
    IF r.bodyErr THEN [err |-> TRUE, key |-> ""]
    ELSE [err |-> FALSE,
          key |-> idempotencyKey \o ":" \o Fingerprint(r.method, r.path, r.body)]

-----------------------------------------------------------------------------
(* MemoryStore *)

Expired(e, t) == t > e.expiresAt

\* Get: the response, or NotFound
NotFound == [found |-> FALSE, response |-> [StatusCode |-> 0, Headers |-> {}, Body |-> "", Timestamp |-> 0]]

\* mutant: Before for After in the expiry test
MemGet_Before(d, key, t) ==
    IF key \notin DOMAIN d THEN NotFound
    ELSE IF t < d[key].expiresAt THEN NotFound
    ELSE [found |-> TRUE, response |-> d[key].response]

\* mutant: the inline expiry test forgotten, expiry left to the sweep
MemGet_NoExpiry(d, key, t) ==
    IF key \notin DOMAIN d THEN NotFound
    ELSE [found |-> TRUE, response |-> d[key].response]

MemGet(d, key, t) ==
    IF key \notin DOMAIN d THEN NotFound
    ELSE IF Expired(d[key], t) THEN NotFound
    ELSE [found |-> TRUE, response |-> d[key].response]

MemSet(d, key, response, ttl, t) ==
    [k \in DOMAIN d \cup {key} |->
        IF k = key THEN [response |-> response, expiresAt |-> t + ttl] ELSE d[k]]

\* mutant: the sweep removes an entry at the instant of its expiry already
MemSweep_Eager(d, t) ==
    [k \in {x \in DOMAIN d : t < d[x].expiresAt} |-> d[k]]

MemSweep(d, t) ==
    [k \in {x \in DOMAIN d : ~Expired(d[x], t)} |-> d[k]]

\* mutant: the mutex is created on every call, the `exists` test forgotten
LocksWith_Fresh(l, key) ==
    [k \in DOMAIN l \cup {key} |-> IF k = key THEN 0 ELSE l[k]]

\* Lock, lines 68-74: the key's mutex, created on first use
LocksWith(l, key) ==
    [k \in DOMAIN l \cup {key} |-> IF k \in DOMAIN l THEN l[k] ELSE 0]

\* mutant: the goroutine locks a copy of the mutex, which is always free
MutexFree_Copy(l, key) == TRUE

\* mutant: one mutex for all keys
MutexFree_Global(l, key) == \A k \in DOMAIN l : l[k] = 0

MutexFree(l, key) == l[key] = 0

\* mutant: no timer, Lock waits for the mutex alone
TimerFires_Never(l, key) == FALSE

\* Lock, line 86: the 100ms timer fires before `locked` is closed; the
\* goroutine of a free mutex closes it first
TimerFires(l, key) == ~MutexFree(l, key)

MutexLock(l, key, g) == [l EXCEPT ![key] = g]

MutexUnlock(l, key) == [l EXCEPT ![key] = 0]

-----------------------------------------------------------------------------
(* writeCachedResponse *)

\* mutant: the marker header forgotten
writeCachedResponse_NoMarker(ws, resp) ==
    LET copied == [ws EXCEPT !.header = @ \cup resp.Headers]
    IN WWrite(WWriteHeader(copied, resp.StatusCode), resp.Body)

writeCachedResponse(ws, resp) ==
    LET copied == [ws EXCEPT !.header = @ \cup resp.Headers]
        marked == [copied EXCEPT !.header = @ \cup {CachedMarker}]
    IN WWrite(WWriteHeader(marked, resp.StatusCode), resp.Body)

-----------------------------------------------------------------------------
(* Workloads *)

Methods == {"POST", "PUT", "PATCH", "GET", "DELETE"}

AllRequests ==
    [method : Methods, key : {"", "k"}, path : {"/a", "/ab"}, body : {"", "b"},
     bodyErr : {FALSE}]

\* every method, with and without key
AnyMethod ==
    [method : Methods, key : {"", "k"}, path : {"/a"}, body : {"b"}, bodyErr : {FALSE}]

Post(path, body) ==
    [method |-> "POST", key |-> "k", path |-> path, body |-> body, bodyErr |-> FALSE]

\* one fingerprint requested again and again, a second fingerprint, a request
\* without key, a request whose body cannot be read
Workload ==
    {Post("/a", "b"), Post("/b", ""),
     [Post("/a", "b") EXCEPT !.key = ""],
     [Post("/a", "b") EXCEPT !.bodyErr = TRUE]}

\* the same without the second fingerprint
OneKeyWorkload == Workload \ {Post("/b", "")}

-----------------------------------------------------------------------------
(* Observation of a run *)

\* alone: no other request with the same key was in flight during this one
\* atStart: the entry of the request's key when the request arrived
\* ops: the KeyFunc and Store operations the request has called
\* errs: the errors these operations returned, as <<operation, error>>
\* wh: the handler called WriteHeader
\* script: the calls the handler made on its writer
\* unlocks: calls of the unlock function Lock returned
NoHist ==
    [alone |-> FALSE, atStart |-> "unset", ops |-> {}, errs |-> {}, wh |-> FALSE,
     script |-> <<>>, unlocks |-> 0]

\* what a Get of key would find at time t, were no sweep ever run
EntryState(st, key, t) ==
    IF key \notin DOMAIN st THEN "none"
    ELSE IF t > st[key] THEN "expired" ELSE "live"

InFlight(r) == pc[r] \notin {"idle", "done"}

SameKeyInFlight(r, key) == {q \in Req \ {r} : InFlight(q) /\ fullKey[q] = key}

-----------------------------------------------------------------------------
(* Initial state: NewMemoryStore(), Middleware(store), no request yet *)

MwInit(c) ==
    /\ cfg = c
    /\ now = 0
    /\ data = <<>>
    /\ locks = <<>>
    /\ pc = [r \in Req |-> "idle"]
    /\ rq = [r \in Req |-> NoReq]
    /\ fullKey = [r \in Req |-> ""]
    /\ gor = [r \in Req |-> "none"]
    /\ w = [r \in Req |-> NewWriter]
    /\ rec = [r \in Req |-> NoRecorder]
    /\ cached = [r \in Req |-> NotFound.response]
    /\ invoked = [r \in Req |-> 0]
    /\ hist = [r \in Req |-> NoHist]
    /\ stored = <<>>

\* the parts of the state a specification does not use stay as they are here
KfIdle == kf = <<>>
RdIdle == rds = <<>> /\ rcl = <<>>
MsIdle == ms = <<>>

Init ==
    /\ MwInit([n |-> NReq, menu |-> Workload, scripts |-> PlainScripts, ttl |-> ConfigTTL])
    /\ KfIdle
    /\ RdIdle
    /\ MsIdle

-----------------------------------------------------------------------------
(* Middleware, the replies to the errors of the Store *)

\* mutant: every error of Lock answered 409
LockErrorReply_Conflict(ws, err) ==
    HttpError(ws, "Request already in progress", StatusConflict)

\* lines 60-66: 409 for ErrRequestInProgress, 500 for any other error of Lock
LockErrorReply(ws, err) ==
    IF err = "ErrRequestInProgress"
    THEN HttpError(ws, "Request already in progress", StatusConflict)
    ELSE HttpError(ws, "Internal server error", StatusInternalServerError)

\* mutant: an error of Set answered 500
SetErrorReply_Fail(ws) == HttpError(ws, "Internal server error", StatusInternalServerError)

\* lines 96-99: the error of Set is dropped, nothing is written
SetErrorReply(ws) == ws

\* mutant: return on an error of Set, the unlock skipped
AfterSet_Return(err) == IF err THEN "done" ELSE "stored"

\* lines 96-101: whatever Set returned, the closure goes on to unlock()
AfterSet(err) == "stored"

-----------------------------------------------------------------------------
(* Middleware, one action per step of the closure *)

\* a request arrives; requests are numbered in order of arrival
Arrives(r, d) ==
    /\ r <= cfg.n
    /\ pc[r] = "idle"
    /\ IF r = 1 THEN TRUE ELSE pc[r - 1] # "idle"
    /\ d \in cfg.menu

Intercepted(d) == isIdempotentMethod(d.method) /\ d.key # ""

\* lines 39-49: not a POST/PUT/PATCH, or no key: next.ServeHTTP(w, r)
PassThrough(r) ==
    \E d \in cfg.menu :
        /\ Arrives(r, d)
        /\ ~Intercepted(d)
        /\ pc' = [pc EXCEPT ![r] = "pass"]
        /\ rq' = [rq EXCEPT ![r] = d]
        /\ UNCHANGED <<cfg, now, data, locks, fullKey, gor, w, rec, invoked, hist,
                       stored, kf, rds, rcl, ms, cached>>

\* lines 40, 47: the handler runs on the original writer
PassServeHTTP(r) ==
    /\ pc[r] = "pass"
    /\ \E script \in cfg.scripts : w' = [w EXCEPT ![r] = RunDirect(w[r], script)]
    /\ invoked' = [invoked EXCEPT ![r] = @ + 1]
    /\ pc' = [pc EXCEPT ![r] = "done"]
    /\ UNCHANGED <<cfg, now, data, locks, rq, fullKey, gor, rec, hist, stored,
                   kf, rds, rcl, ms, cached>>

\* lines 52-56: KeyFunc fails: 400
KeyFuncFails(r) ==
    \E d \in cfg.menu :
        /\ Arrives(r, d)
        /\ Intercepted(d)
        /\ defaultKeyFunc(d, d.key).err
        /\ rq' = [rq EXCEPT ![r] = d]
        /\ w' = [w EXCEPT ![r] = HttpError(w[r], "Invalid idempotency key", StatusBadRequest)]
        /\ pc' = [pc EXCEPT ![r] = "done"]
        /\ hist' = [hist EXCEPT ![r].ops = {"KeyFunc"},
                                 ![r].errs = {<<"KeyFunc", "error">>}]
        /\ UNCHANGED <<cfg, now, data, locks, fullKey, gor, rec, invoked,
                       stored, kf, rds, rcl, ms, cached>>

\* lines 52, 59 and MemoryStore.Lock lines 68-81: the key is computed, its
\* mutex looked up or created, and a goroutine started on mu.Lock()
LockBegins(r) ==
    \E d \in cfg.menu :
        /\ Arrives(r, d)
        /\ Intercepted(d)
        /\ ~defaultKeyFunc(d, d.key).err
        /\ LET key == defaultKeyFunc(d, d.key).key
               others == SameKeyInFlight(r, key)
           IN /\ rq' = [rq EXCEPT ![r] = d]
              /\ fullKey' = [fullKey EXCEPT ![r] = key]
              /\ locks' = LocksWith(locks, key)
              /\ hist' = [q \in Req |->
                            IF q = r
                            THEN [NoHist EXCEPT
                                    !.alone = others = {},
                                    !.atStart = EntryState(stored, key, now),
                                    !.ops = {"KeyFunc", "Lock"}]
                            ELSE IF q \in others THEN [hist[q] EXCEPT !.alone = FALSE]
                            ELSE hist[q]]
        /\ gor' = [gor EXCEPT ![r] = "blocked"]
        /\ pc' = [pc EXCEPT ![r] = "locking"]
        /\ UNCHANGED <<cfg, now, data, w, rec, invoked, stored, kf, rds, rcl, ms, cached>>

\* MemoryStore.Lock lines 79-80: the goroutine gets the mutex and closes `locked`
GoroutineLocks(r) ==
    /\ gor[r] = "blocked"
    /\ MutexFree(locks, fullKey[r])
    /\ locks' = MutexLock(locks, fullKey[r], r)
    /\ gor' = [gor EXCEPT ![r] = "done"]
    /\ UNCHANGED <<cfg, now, data, pc, rq, fullKey, w, rec, invoked, hist, stored,
                   kf, rds, rcl, ms, cached>>

\* MemoryStore.Lock lines 84-85: Lock returns the unlock function
LockReturns(r) ==
    /\ pc[r] = "locking"
    /\ gor[r] = "done"
    /\ pc' = [pc EXCEPT ![r] = "locked"]
    /\ UNCHANGED <<cfg, now, data, locks, rq, fullKey, gor, w, rec, invoked, hist,
                   stored, kf, rds, rcl, ms, cached>>

\* MemoryStore.Lock lines 86-87 and Middleware lines 60-64: the timer fires
\* first, Lock returns ErrRequestInProgress, the request is answered 409; the
\* goroutine stays blocked on mu.Lock()
LockTimesOut(r) ==
    /\ pc[r] = "locking"
    /\ gor[r] = "blocked"
    /\ TimerFires(locks, fullKey[r])
    /\ w' = [w EXCEPT ![r] = LockErrorReply(w[r], "ErrRequestInProgress")]
    /\ hist' = [hist EXCEPT ![r].errs = @ \cup {<<"Lock", "ErrRequestInProgress">>}]
    /\ pc' = [pc EXCEPT ![r] = "done"]
    /\ UNCHANGED <<cfg, now, data, locks, rq, fullKey, gor, rec, invoked, stored,
                   kf, rds, rcl, ms, cached>>

\* lines 70-71 and 79-83: store.Get under the lock
CacheLookup(r) ==
    /\ pc[r] = "locked"
    /\ LET got == MemGet(data, fullKey[r], now)
       IN /\ pc' = [pc EXCEPT ![r] = IF got.found THEN "hit" ELSE "handler"]
          /\ rec' = [rec EXCEPT ![r] = IF got.found THEN @ ELSE NewRecorder]
          /\ cached' = [cached EXCEPT ![r] = got.response]
    /\ hist' = [hist EXCEPT ![r].ops = @ \cup {"Get"}]
    /\ UNCHANGED <<cfg, now, data, locks, rq, fullKey, gor, w, invoked, stored,
                   kf, rds, rcl, ms>>

\* lines 72-75: unlock(), then the cached response is written
ReplyCached(r) ==
    /\ pc[r] = "hit"
    /\ locks' = MutexUnlock(locks, fullKey[r])
    /\ w' = [w EXCEPT ![r] = writeCachedResponse(w[r], cached[r])]
    /\ hist' = [hist EXCEPT ![r].unlocks = @ + 1]
    /\ pc' = [pc EXCEPT ![r] = "done"]
    /\ UNCHANGED <<cfg, now, data, rq, fullKey, gor, rec, invoked, stored,
                   kf, rds, rcl, ms, cached>>

\* line 86: next.ServeHTTP(recorder, r)
NextServeHTTP(r) ==
    /\ pc[r] = "handler"
    /\ \E script \in cfg.scripts :
          LET rw == RunRecorded([rec |-> rec[r], w |-> w[r]], script)
          IN /\ rec' = [rec EXCEPT ![r] = rw.rec]
             /\ w' = [w EXCEPT ![r] = rw.w]
             /\ hist' = [hist EXCEPT ![r].wh = SetsStatus(script), ![r].script = script]
    /\ invoked' = [invoked EXCEPT ![r] = @ + 1]
    /\ pc' = [pc EXCEPT ![r] = "served"]
    /\ UNCHANGED <<cfg, now, data, locks, rq, fullKey, gor, stored, kf, rds, rcl, ms, cached>>

\* lines 89-96: the recorded response is stored
CacheStore(r) ==
    /\ pc[r] = "served"
    /\ LET built == [StatusCode |-> rec[r].statusCode, Headers |-> w[r].header,
                     Body |-> rec[r].body, Timestamp |-> now]
       IN /\ cached' = [cached EXCEPT ![r] = built]
          /\ data' = MemSet(data, fullKey[r], built, cfg.ttl, now)
    /\ stored' = [k \in DOMAIN stored \cup {fullKey[r]} |->
                    IF k = fullKey[r] THEN now + cfg.ttl ELSE stored[k]]
    /\ hist' = [hist EXCEPT ![r].ops = @ \cup {"Set"}]
    /\ pc' = [pc EXCEPT ![r] = AfterSet(FALSE)]
    /\ UNCHANGED <<cfg, now, locks, rq, fullKey, gor, w, rec, invoked, kf, rds, rcl, ms>>

\* line 101: unlock()
Unlock(r) ==
    /\ pc[r] = "stored"
    /\ locks' = MutexUnlock(locks, fullKey[r])
    /\ hist' = [hist EXCEPT ![r].unlocks = @ + 1]
    /\ pc' = [pc EXCEPT ![r] = "done"]
    /\ UNCHANGED <<cfg, now, data, rq, fullKey, gor, w, rec, invoked, stored,
                   kf, rds, rcl, ms, cached>>

\* MemoryStore.cleanup: one pass of the sweep
Cleanup ==
    /\ \E k \in DOMAIN data : Expired(data[k], now)
    /\ data' = MemSweep(data, now)
    /\ UNCHANGED <<cfg, now, locks, pc, rq, fullKey, gor, w, rec, invoked, hist,
                   stored, kf, rds, rcl, ms, cached>>

\* a request is in the wrapped handler, or not running at all
Resting(r) == pc[r] \in {"idle", "done", "pass", "handler"}

\* a goroutine of Lock can take its mutex now
Runnable(r) == gor[r] = "blocked" /\ MutexFree(locks, fullKey[r])

\* time passes
Tick ==
    /\ now < MaxTime
    /\ \A r \in Req : Resting(r) /\ ~Runnable(r)
    /\ now' = now + 1
    /\ UNCHANGED <<cfg, data, locks, pc, rq, fullKey, gor, w, rec, invoked, hist,
                   stored, kf, rds, rcl, ms, cached>>

Next ==
    \/ \E r \in Req :
          \/ PassThrough(r) \/ PassServeHTTP(r) \/ KeyFuncFails(r) \/ LockBegins(r)
          \/ GoroutineLocks(r) \/ LockReturns(r) \/ LockTimesOut(r)
          \/ CacheLookup(r) \/ ReplyCached(r) \/ NextServeHTTP(r)
          \/ CacheStore(r) \/ Unlock(r)
    \/ Cleanup
    \/ Tick

Spec == Init /\ [][Next]_vars

-----------------------------------------------------------------------------
(* Vocabulary of the properties *)

Done(r) == pc[r] = "done"

Keyed(r) == fullKey[r] # ""

OnKey(key) == {r \in Req : fullKey[r] = key}

\* between a Lock that returned the unlock function and the call of it
Holding(r) == pc[r] \in {"locked", "hit", "handler", "served", "stored"}

Marked(r) == CachedMarker \in w[r].sent

RepliedFromCache(r) == Done(r) /\ invoked[r] = 0 /\ Marked(r) /\ "Get" \in hist[r].ops

Rejected(r) == Done(r) /\ invoked[r] = 0 /\ w[r].status = StatusConflict /\ ~Marked(r)

Executed(r) == Done(r) /\ invoked[r] = 1 /\ "Set" \in hist[r].ops

-----------------------------------------------------------------------------
\* C1: two requests with the same key, method, path and body, the only ones of
\* their fingerprint, the second arriving after the first returned and while
\* the stored entry is within its TTL: the handler ran at most once over both,
\* and the second was answered from the store without running the handler.
SequentialPair(r1, r2) ==
    /\ r1 < r2
    /\ Keyed(r1) /\ Keyed(r2)
    /\ rq[r1] = rq[r2]
    /\ OnKey(fullKey[r1]) = {r1, r2}
    /\ Done(r1) /\ Done(r2)
    /\ hist[r2].alone
    /\ hist[r2].atStart = "live"

ConcurrentPair(r1, r2) ==
    /\ r1 < r2
    /\ Keyed(r1)
    /\ OnKey(fullKey[r1]) = {r1, r2}
    /\ ~hist[r2].alone
    /\ Done(r1) /\ Done(r2)

C2_ConcurrentPairRunsHandlerOnce ==
    /\ \A r1, r2 \in Req :
          ConcurrentPair(r1, r2) =>
              /\ invoked[r1] + invoked[r2] = 1
              /\ \A r \in {r1, r2} :
                    invoked[r] = 0 => RepliedFromCache(r) \/ Rejected(r)
    /\ \A r1, r2 \in Req :
          (r1 # r2 /\ Holding(r1) /\ Holding(r2)) => fullKey[r1] # fullKey[r2]

C2_Witness ==
    \E r1, r2 \in Req :
        /\ ConcurrentPair(r1, r2)
        /\ Executed(r1)
        /\ RepliedFromCache(r2)

C2_WitnessConflict ==
    \E r1, r2 \in Req : ConcurrentPair(r1, r2) /\ Executed(r1) /\ Rejected(r2)

\* C5: a Lock(k) call made when an earlier holder of k has released, no unlock
\* function of k is outstanding and no other Lock(k) call is pending, returns
\* the unlock function: the request is not answered 409.
C5_LockAfterReleaseSucceeds ==
    \A r \in Req :
        (/\ Keyed(r) /\ Done(r) /\ hist[r].alone
         /\ \E q \in OnKey(fullKey[r]) \ {r} : Done(q) /\ "Get" \in hist[q].ops)
        => ~Rejected(r)

\* C6: for every key at most one unlock function is outstanding, and a Lock
\* call returns it only when no other is.
C6_OneHolderPerKey ==
    \A key \in DOMAIN locks :
        /\ Cardinality({r \in OnKey(key) : Holding(r)}) <= 1
        /\ \A r \in OnKey(key) : Holding(r) => locks[key] = r

C6_Witness ==
    \E r1, r2 \in Req :
        /\ r1 # r2 /\ fullKey[r1] = fullKey[r2]
        /\ Holding(r1)
        /\ Rejected(r2)

\* C8: a request of fingerprint f that arrives after request A of f ran the
\* handler, stored its response and returned, with no other request of f in
\* flight and the entry within its TTL, is answered from the store.
C8_RetryAfterStoreIsServed ==
    \A a, r \in Req :
        (/\ a < r /\ Keyed(a) /\ fullKey[a] = fullKey[r]
         /\ Executed(a)
         /\ Done(r) /\ hist[r].alone /\ hist[r].atStart = "live")
        => RepliedFromCache(r)

\* C9: a request that arrives after the TTL of the entry of its fingerprint
\* has elapsed, with no other request of the fingerprint in flight, runs the
\* handler and its response carries no marker.
C9_ExpiredEntryRunsHandler ==
    \A r \in Req :
        (Keyed(r) /\ Done(r) /\ hist[r].alone /\ hist[r].atStart = "expired")
        => (invoked[r] = 1 /\ ~Marked(r))

-----------------------------------------------------------------------------
(* Progress of MemoryStore.Lock: a goroutine that can take its mutex takes  *)
(* it, a closed `locked` channel or a fired timer ends the select.  Nothing *)
(* is assumed of the handler, of the other steps of the middleware or of    *)
(* the arrival of requests.                                                 *)

LockProgress ==
    \A r \in Req :
        /\ WF_vars(GoroutineLocks(r))
        /\ WF_vars(LockReturns(r))
        /\ WF_vars(LockTimesOut(r))

\* every request of the one fingerprint: every Lock call meets the others
InitLive ==
    /\ MwInit([n |-> NReq, menu |-> OneKeyWorkload, scripts |-> PlainScripts,
               ttl |-> ConfigTTL])
    /\ KfIdle
    /\ RdIdle
    /\ MsIdle

SpecLive == InitLive /\ [][Next]_vars /\ LockProgress

\* C16: every MemoryStore.Lock call returns, with the unlock function or with
\* ErrRequestInProgress, whatever the state of the key's mutex and however
\* long its holder keeps it.
C16_LockCallReturns ==
    /\ \A r \in Req : (pc[r] = "locking") ~> (pc[r] # "locking")
    /\ [][\A r \in Req :
            (pc[r] = "locking" /\ pc'[r] # "locking") =>
                \/ pc'[r] = "locked" /\ locks'[fullKey[r]] = r
                \/ /\ pc'[r] = "done"
                   /\ <<"Lock", "ErrRequestInProgress">> \in hist'[r].errs
                   /\ w'[r].status = StatusConflict]_vars

C16_Witness ==
    \E q, r \in Req :
        /\ q # r /\ fullKey[q] = fullKey[r]
        /\ pc[q] = "handler" /\ now = MaxTime
        /\ Done(r) /\ gor[r] = "blocked"
        /\ <<"Lock", "ErrRequestInProgress">> \in hist[r].errs

-----------------------------------------------------------------------------
(* The same middleware under two other workloads *)

NPair == NReq - 1

\* two requests, handlers that call WriteHeader and Write in any order
InitReplay ==
    /\ MwInit([n |-> NPair, menu |-> Workload, scripts |-> AllScripts, ttl |-> ConfigTTL])
    /\ KfIdle
    /\ RdIdle
    /\ MsIdle

SpecReplay == InitReplay /\ [][Next]_vars

\* two requests of any method, with or without key
InitAll ==
    /\ MwInit([n |-> NPair, menu |-> AnyMethod \cup Workload, scripts |-> PlainScripts,
               ttl |-> ConfigTTL])
    /\ KfIdle
    /\ RdIdle
    /\ MsIdle

SpecAll == InitAll /\ [][Next]_vars

-----------------------------------------------------------------------------
(* The middleware over a Store whose operations may fail: Lock, Get and Set *)
(* return an error when the backend cannot be reached or a stored value     *)
(* cannot be decoded, as RedisStore's do; the failed operation leaves the   *)
(* store as it was.                                                         *)

StoreFaults == {<<"Lock", "error">>, <<"Get", "error">>, <<"Set", "error">>}

\* the operations of the backend that have failed so far
Faults == {<<r, e>> \in Req \X StoreFaults : e \in hist[r].errs}

BackendFails == Cardinality(Faults) < MaxFaults

\* lines 59-60, 65-66: Lock returns an error other than ErrRequestInProgress
LockFails(r) ==
    \E d \in cfg.menu :
        /\ BackendFails
        /\ Arrives(r, d)
        /\ Intercepted(d)
        /\ ~defaultKeyFunc(d, d.key).err
        /\ LET key == defaultKeyFunc(d, d.key).key
           IN /\ rq' = [rq EXCEPT ![r] = d]
              /\ fullKey' = [fullKey EXCEPT ![r] = key]
              /\ hist' = [hist EXCEPT ![r] =
                            [NoHist EXCEPT
                               !.alone = SameKeyInFlight(r, key) = {},
                               !.atStart = EntryState(stored, key, now),
                               !.ops = {"KeyFunc", "Lock"},
                               !.errs = {<<"Lock", "error">>}]]
        /\ w' = [w EXCEPT ![r] = LockErrorReply(w[r], "error")]
        /\ pc' = [pc EXCEPT ![r] = "done"]
        /\ UNCHANGED <<cfg, now, data, locks, gor, rec, invoked, stored, kf, rds, rcl, ms,
                       cached>>

\* lines 70-71, 79-83: Get returns an error: the entry, if any, is not seen
GetFails(r) ==
    /\ BackendFails
    /\ pc[r] = "locked"
    /\ pc' = [pc EXCEPT ![r] = "handler"]
    /\ rec' = [rec EXCEPT ![r] = NewRecorder]
    /\ cached' = [cached EXCEPT ![r] = NotFound.response]
    /\ hist' = [hist EXCEPT ![r].ops = @ \cup {"Get"},
                             ![r].errs = @ \cup {<<"Get", "error">>}]
    /\ UNCHANGED <<cfg, now, data, locks, rq, fullKey, gor, w, invoked, stored,
                   kf, rds, rcl, ms>>

\* lines 89-99: Set returns an error: nothing is stored
SetFails(r) ==
    /\ BackendFails
    /\ pc[r] = "served"
    /\ cached' = [cached EXCEPT ![r] =
                    [StatusCode |-> rec[r].statusCode, Headers |-> w[r].header,
                     Body |-> rec[r].body, Timestamp |-> now]]
    /\ w' = [w EXCEPT ![r] = SetErrorReply(w[r])]
    /\ hist' = [hist EXCEPT ![r].ops = @ \cup {"Set"},
                             ![r].errs = @ \cup {<<"Set", "error">>}]
    /\ pc' = [pc EXCEPT ![r] = AfterSet(TRUE)]
    /\ UNCHANGED <<cfg, now, data, locks, rq, fullKey, gor, rec, invoked, stored,
                   kf, rds, rcl, ms>>

InitFaulty ==
    /\ MwInit([n |-> NPair, menu |-> OneKeyWorkload, scripts |-> SomeScripts,
               ttl |-> ConfigTTL])
    /\ KfIdle
    /\ RdIdle
    /\ MsIdle

NextFaulty ==
    \/ Next
    \/ \E r \in Req : LockFails(r) \/ GetFails(r) \/ SetFails(r)

SpecFaulty == InitFaulty /\ [][NextFaulty]_vars

LockError(r, e) == <<"Lock", e>> \in hist[r].errs

\* Lock was called and returned the unlock function
LockSucceeded(r) ==
    /\ "Lock" \in hist[r].ops
    /\ pc[r] # "locking"
    /\ \A e \in {"ErrRequestInProgress", "error"} : ~LockError(r, e)

SetFailed(r) == <<"Set", "error">> \in hist[r].errs

GetFailed(r) == <<"Get", "error">> \in hist[r].errs

\* C12: a request whose Lock call returned an error never has the handler
\* invoked nor Get or Set called, and is answered 409 when the error is
\* ErrRequestInProgress and 500 when it is any other error.
C12_LockErrorAborts ==
    \A r \in Req :
        \A e \in {"ErrRequestInProgress", "error"} :
            LockError(r, e) =>
                /\ Done(r)
                /\ invoked[r] = 0
                /\ hist[r].ops \cap {"Get", "Set"} = {}
                /\ rec[r] = NoRecorder
                /\ hist[r].unlocks = 0
                /\ w[r].status = IF e = "ErrRequestInProgress" THEN StatusConflict
                                 ELSE StatusInternalServerError

C12_Witness ==
    \E r1, r2 \in Req :
        /\ r1 # r2 /\ fullKey[r1] = fullKey[r2]
        /\ LockError(r1, "error") /\ w[r1].status = StatusInternalServerError
        /\ pc[r2] = "handler"

C12_WitnessConflict ==
    \E r1, r2 \in Req :
        /\ r1 # r2 /\ fullKey[r1] = fullKey[r2]
        /\ LockError(r1, "ErrRequestInProgress") /\ w[r1].status = StatusConflict
        /\ pc[r2] = "handler"

\* C13: a request whose Lock call succeeded calls the unlock function exactly
\* once before it returns, on the cache hit, after a Set that succeeded and
\* after a Set that failed; none returns holding the mutex, none calls the
\* unlock function twice, and none calls it without a successful Lock.
C13_UnlockExactlyOnce ==
    \A r \in Req :
        /\ hist[r].unlocks <= 1
        /\ (Done(r) /\ LockSucceeded(r)) =>
              hist[r].unlocks = 1 /\ locks[fullKey[r]] # r
        /\ Holding(r) => hist[r].unlocks = 0 /\ locks[fullKey[r]] = r
        /\ hist[r].unlocks = 1 => Done(r) /\ LockSucceeded(r)

C13_Witness ==
    \E r1, r2 \in Req :
        /\ fullKey[r1] = fullKey[r2]
        /\ Done(r1) /\ SetFailed(r1) /\ hist[r1].unlocks = 1
        /\ Done(r2) /\ Executed(r2) /\ ~SetFailed(r2) /\ hist[r2].unlocks = 1

\* C15: when Set returns an error after the handler ran, the response of the
\* request is what the handler's calls produce on a plain ResponseWriter
\* (status, headers and body), the handler was invoked once, and the request
\* returns with the unlock function called.
C15_SetErrorKeepsResponse ==
    \A r \in Req :
        SetFailed(r) =>
            /\ pc[r] \in {"stored", "done"}
            /\ w[r] = RunDirect(NewWriter, hist[r].script)
            /\ invoked[r] = 1
            /\ Done(r) => hist[r].unlocks = 1 /\ locks[fullKey[r]] # r

C15_Witness ==
    \E r \in Req :
        /\ Done(r) /\ SetFailed(r)
        /\ w[r].status = StatusOK /\ w[r].sent = HandlerHeaders /\ w[r].body = "x"
        /\ fullKey[r] \notin DOMAIN data
        /\ locks[fullKey[r]] = 0

\* C19: an entry stored under a key is not replaced by another value, nor
\* removed, before its TTL has expired, whatever the Store operations return.
C19_EntryKeptUntilExpiry ==
    [][\A key \in DOMAIN data :
          ~Expired(data[key], now) =>
              key \in DOMAIN data' /\ data'[key] = data[key]]_vars

-----------------------------------------------------------------------------
(* defaultKeyFunc on pairs of requests *)

KeyInputs == AllRequests

MwIdle == MwInit([n |-> 0, menu |-> {}, scripts |-> {}, ttl |-> ConfigTTL])

InitKey ==
    /\ MwIdle
    /\ RdIdle
    /\ MsIdle
    /\ \E a, b \in KeyInputs :
          kf = [a |-> a, b |-> b, ka |-> "", kb |-> "", step |-> 0]

\* the key of the first request is computed
KeyOfFirst ==
    /\ kf.step = 0
    /\ kf' = [kf EXCEPT !.ka = defaultKeyFunc(kf.a, kf.a.key).key, !.step = 1]
    /\ UNCHANGED <<mwVars, rdVars, msVars>>

\* the key of the second request is computed
KeyOfSecond ==
    /\ kf.step = 1
    /\ kf' = [kf EXCEPT !.kb = defaultKeyFunc(kf.b, kf.b.key).key, !.step = 2]
    /\ UNCHANGED <<mwVars, rdVars, msVars>>

NextKey == KeyOfFirst \/ KeyOfSecond

SpecKey == InitKey /\ [][NextKey]_vars

Triple(d) == <<d.method, d.path, d.body>>

\* C4: two requests with the same idempotency key whose (method, path, body)
\* differ get different keys from defaultKeyFunc, and two requests equal in
\* key, method, path and body get the same key.
C4_DistinctTriplesDistinctKeys ==
    kf.step = 2 =>
        /\ (kf.a.key = kf.b.key /\ Triple(kf.a) # Triple(kf.b)) => kf.ka # kf.kb
        /\ kf.a = kf.b => kf.ka = kf.kb

-----------------------------------------------------------------------------
\* C3: whatever the handler calls on its writer, a request answered from the
\* store gets the status and the body that were delivered to the request that
\* ran the handler; the status is 200 when the handler never called WriteHeader.
C3_ReplayEqualsDelivered ==
    \A r1, r2 \in Req :
        (/\ r1 # r2 /\ Keyed(r1) /\ fullKey[r1] = fullKey[r2]
         /\ Executed(r1) /\ RepliedFromCache(r2))
        => /\ w[r2].status = w[r1].status
           /\ w[r2].body = w[r1].body
           /\ ~hist[r1].wh => w[r1].status = StatusOK

\* C10: a request calls KeyFunc or the store exactly when its method is POST,
\* PUT or PATCH and it carries a key; any other request runs the handler once,
\* on the writer it came with, and gets no marker.
Mutating(d) == d.method \in {"POST", "PUT", "PATCH"} /\ d.key # ""

C10_InterceptedIffMutatingWithKey ==
    \A r \in Req :
        pc[r] # "idle" =>
            /\ hist[r].ops # {} <=> Mutating(rq[r])
            /\ ~Mutating(rq[r]) =>
                  /\ invoked[r] = IF Done(r) THEN 1 ELSE 0
                  /\ rec[r] = NoRecorder
                  /\ ~Marked(r)
                  /\ ~Keyed(r) /\ gor[r] = "none"

C10_Witness ==
    \E r1, r2 \in Req :
        /\ rq[r1].method = "DELETE" /\ rq[r1].key = "k" /\ Done(r1) /\ invoked[r1] = 1
        /\ rq[r2].method = "PATCH" /\ rq[r2].key = "k" /\ "Set" \in hist[r2].ops

\* a step of request r: of its closure or of the goroutine of its Lock call
StepOf(r) == pc'[r] # pc[r] \/ gor'[r] # gor[r]

\* C20: a request that is the only one of its fingerprint is never answered
\* 409 and its Lock never waits behind a held mutex, whatever the requests of
\* other fingerprints do and however long they hold their locks; and a step
\* of a request (Lock, Get, Set, unlock) leaves the mutex and the entry of
\* every other fingerprint as they are.
C20_KeysIndependent ==
    /\ [](\A r \in Req :
            (Keyed(r) /\ OnKey(fullKey[r]) = {r}) =>
                /\ ~Rejected(r)
                /\ hist[r].errs = {}
                /\ gor[r] = "blocked" => MutexFree(locks, fullKey[r]))
    /\ [][\A r \in Req :
            StepOf(r) =>
                /\ \A k \in DOMAIN locks \ {fullKey'[r]} : locks'[k] = locks[k]
                /\ \A k \in DOMAIN data \ {fullKey'[r]} :
                      k \in DOMAIN data' /\ data'[k] = data[k]]_vars

C20_Witness ==
    \E r1, r2, r3 \in Req :
        /\ r1 < r2 /\ r2 < r3
        /\ Keyed(r1) /\ fullKey[r2] = fullKey[r1] /\ Keyed(r3) /\ fullKey[r3] # fullKey[r1]
        /\ pc[r1] = "handler" /\ Rejected(r2)
        /\ pc[r3] = "stored" /\ fullKey[r3] \in DOMAIN data

\* C22: a key's mutex, once in the lock map, stays in it and is the one every
\* later Lock call of the key uses: a Lock call that finds the key in the map
\* leaves its mutex as it is, and the state of the mutex changes only when a
\* goroutine of that key locks it while it is free or its holder unlocks it.
C22_OneMutexPerKey ==
    [][\A key \in DOMAIN locks :
          /\ key \in DOMAIN locks'
          /\ locks'[key] # locks[key] =>
                LET before == locks[key]
                    after == locks'[key]
                IN IF before = 0
                   THEN /\ after \in OnKey(key)
                        /\ gor[after] = "blocked" /\ gor'[after] = "done"
                   ELSE /\ after = 0
                        /\ before \in OnKey(key)
                        /\ Holding(before) /\ pc'[before] = "done"]_vars

\* three Lock calls of one key: the first holds, the second waits on the
\* same mutex, the third has timed out on it
C22_Witness ==
    \E r1, r2, r3 \in Req :
        /\ r1 < r2 /\ r2 < r3
        /\ fullKey[r1] = fullKey[r2] /\ fullKey[r2] = fullKey[r3] /\ Keyed(r1)
        /\ Holding(r1) /\ locks[fullKey[r1]] = r1
        /\ Rejected(r2) /\ gor[r2] = "blocked"
        /\ pc[r3] = "locking" /\ gor[r3] = "blocked"

\* an intercepted request whose body cannot be read: KeyFunc returns an error
KeyFuncErrs(r) == pc[r] # "idle" /\ Intercepted(rq[r]) /\ rq[r].bodyErr

\* C14: a request whose key function returns an error is answered 400 and
\* returns without Lock, Get, Set or the handler being called, and the step
\* that answers it leaves the store's entries and mutexes as they were.
C14_KeyFuncErrorAborts ==
    /\ [](\A r \in Req :
            KeyFuncErrs(r) =>
                /\ Done(r)
                /\ w[r].status = StatusBadRequest
                /\ invoked[r] = 0
                /\ hist[r].ops = {"KeyFunc"}
                /\ gor[r] = "none" /\ rec[r] = NoRecorder /\ hist[r].unlocks = 0)
    /\ [][\A r \in Req :
            (KeyFuncErrs(r)' /\ ~KeyFuncErrs(r)) =>
                data' = data /\ locks' = locks /\ stored' = stored]_vars

C14_Witness ==
    \E r1, r2 \in Req :
        /\ r1 < r2
        /\ Holding(r1)
        /\ KeyFuncErrs(r2) /\ w[r2].status = StatusBadRequest
        /\ DOMAIN data # {}

\* the request got past Lock: its response is the handler's, live or replayed
HandlerOrigin(r) == Done(r) /\ "Get" \in hist[r].ops

\* C11: an intercepted request whose response comes from the handler carries
\* the marker X-Idempotency-Cached exactly when the handler was not invoked
\* for it; a response produced by running the handler carries no marker; and
\* no stored entry holds the marker among its headers.
C11_MarkerIffReplayed ==
    /\ \A r \in Req :
          HandlerOrigin(r) =>
              /\ Marked(r) <=> invoked[r] = 0
              /\ invoked[r] = 1 => CachedMarker \notin w[r].header
    /\ \A r \in Req : invoked[r] > 0 => ~Marked(r)
    /\ \A key \in DOMAIN data : CachedMarker \notin data[key].response.Headers

C11_Witness ==
    \E r1, r2 \in Req :
        /\ r1 # r2 /\ fullKey[r1] = fullKey[r2]
        /\ HandlerOrigin(r1) /\ invoked[r1] = 1 /\ ~Marked(r1)
        /\ HandlerOrigin(r2) /\ invoked[r2] = 0 /\ Marked(r2)
        /\ data[fullKey[r1]].response.Headers = HandlerHeaders
        /\ w[r2].sent = HandlerHeaders \cup {CachedMarker}

-----------------------------------------------------------------------------
(* RedisStore.Lock against one Redis server shared by the callers *)

Callers == 1..NCallers

RKeys == {"a", "b"}

LockKey(key) == "lock:" \o key

\* mutant: SET for SETNX
RedisSetNX_Set(db, lockKey, caller, ttl) ==
    [acquired |-> TRUE,
     db |-> [k \in DOMAIN db \cup {lockKey} |->
               IF k = lockKey THEN [ttl |-> ttl, by |-> caller] ELSE db[k]]]

\* SET lockKey "1" NX EX ttl: [acquired, db]
RedisSetNX(db, lockKey, caller, ttl) ==
    IF lockKey \in DOMAIN db THEN [acquired |-> FALSE, db |-> db]
    ELSE [acquired |-> TRUE,
          db |-> [k \in DOMAIN db \cup {lockKey} |->
                    IF k = lockKey THEN [ttl |-> ttl, by |-> caller] ELSE db[k]]]

\* DEL lockKey
RedisDel(db, lockKey) == [k \in DOMAIN db \ {lockKey} |-> db[k]]

\* mutant: keys set without expiration
RedisExpire_Never(db) == db

\* the server's clock advances one tick: entries whose TTL runs out are gone
RedisExpire(db) ==
    [k \in {x \in DOMAIN db : db[x].ttl > 1} |-> [db[k] EXCEPT !.ttl = @ - 1]]

InitRedis ==
    /\ MwIdle
    /\ KfIdle
    /\ MsIdle
    /\ rds = <<>>
    /\ rcl = [state |-> [c \in Callers |-> [k \in RKeys |-> "idle"]], expired |-> {}]

\* lines 55-57, 66-70: SetNX sets the lock key, Lock returns the unlock function
RedisLockAcquires(c, key) ==
    /\ rcl.state[c][key] # "held"
    /\ LET res == RedisSetNX(rds, LockKey(key), c, RedisLockTTL)
       IN /\ res.acquired
          /\ rds' = res.db
    /\ rcl' = [rcl EXCEPT !.state[c][key] = "held"]
    /\ UNCHANGED <<mwVars, kfVars, msVars>>

\* lines 55-57, 62-64: the lock key exists, Lock returns ErrRequestInProgress
RedisLockInProgress(c, key) ==
    /\ rcl.state[c][key] # "held"
    /\ LET res == RedisSetNX(rds, LockKey(key), c, RedisLockTTL)
       IN /\ ~res.acquired
          /\ rds' = res.db
    /\ rcl' = [rcl EXCEPT !.state[c][key] = "refused"]
    /\ UNCHANGED <<mwVars, kfVars, msVars>>

\* lines 66-68: the unlock function deletes the lock key
RedisUnlock(c, key) ==
    /\ rcl.state[c][key] = "held"
    /\ rds' = RedisDel(rds, LockKey(key))
    /\ rcl' = [rcl EXCEPT !.state[c][key] = "idle"]
    /\ UNCHANGED <<mwVars, kfVars, msVars>>

\* time passes on the server
RedisTick ==
    /\ DOMAIN rds # {}
    /\ rds' = RedisExpire(rds)
    /\ rcl' = [rcl EXCEPT !.expired =
                  @ \cup {key \in RKeys : LockKey(key) \in DOMAIN rds \ DOMAIN RedisExpire(rds)}]
    /\ UNCHANGED <<mwVars, kfVars, msVars>>

NextRedis ==
    \/ \E c \in Callers, key \in RKeys :
          \/ RedisLockAcquires(c, key)
          \/ RedisLockInProgress(c, key)
          \/ RedisUnlock(c, key)
    \/ RedisTick

SpecRedis == InitRedis /\ [][NextRedis]_vars

RedisHolders(key) == {c \in Callers : rcl.state[c][key] = "held"}

\* C7 as stated: for every key at most one caller holds the lock at any
\* instant, over all interleavings of Lock, release and the passage of time.
C7_OneRedisHolderAlways ==
    \A key \in RKeys : Cardinality(RedisHolders(key)) <= 1

\* C7 as amended: for every key, as long as no lock entry of the key has
\* expired (every holder released within the lock TTL), at most one caller
\* holds the lock at any instant.
C7_OneRedisHolderUntilExpiry ==
    \A key \in RKeys :
        key \notin rcl.expired => Cardinality(RedisHolders(key)) <= 1

C7_Witness ==
    \E key \in RKeys, c1, c2 \in Callers :
        /\ key \notin rcl.expired
        /\ rcl.state[c1][key] = "held"
        /\ rcl.state[c2][key] = "refused"
        /\ rds[LockKey(key)].ttl < RedisLockTTL

-----------------------------------------------------------------------------
(* The same with the passage of time on the server: a key that is set does *)
(* not stay for ever at the same remaining TTL.  Nothing is assumed of the  *)
(* callers: a holder may never call its unlock function.                    *)

SpecRedisLive == InitRedis /\ [][NextRedis]_vars /\ WF_vars(RedisTick)

\* the lock entry that caller c's Lock(key) set is on the server
EntryOf(c, key) == LockKey(key) \in DOMAIN rds /\ rds[LockKey(key)].by = c

\* C17: the lock entry of a holder that never calls its unlock function is
\* gone once its TTL has elapsed, and a Lock call on a key without entry, by
\* any caller not holding the key, succeeds and does not return
\* ErrRequestInProgress.
C17_StuckHolderExpires ==
    /\ \A key \in RKeys :
          (LockKey(key) \in DOMAIN rds) ~> (LockKey(key) \notin DOMAIN rds)
    /\ [](\A k \in DOMAIN rds : rds[k].ttl \in 1..RedisLockTTL)
    /\ [][\A c \in Callers, key \in RKeys :
            (/\ LockKey(key) \notin DOMAIN rds
             /\ rcl.state[c][key] # "held"
             /\ rcl'.state[c][key] # rcl.state[c][key])
            => rcl'.state[c][key] = "held" /\ EntryOf(c, key)']_vars

C17_Witness ==
    \E key \in RKeys, c1, c2 \in Callers :
        /\ c1 # c2
        /\ rcl.state[c1][key] = "held"
        /\ key \in rcl.expired
        /\ rcl.state[c2][key] = "held" /\ EntryOf(c2, key)

\* C23: a call of the unlock function removes only the lock entry that the
\* Lock call which returned it created: a lock entry on the server that
\* another caller's Lock created is still there after the call.
C23_UnlockRemovesOwnEntryOnly ==
    [][\A c \in Callers, key \in RKeys :
          (/\ rcl.state[c][key] = "held" /\ rcl'.state[c][key] = "idle"
           /\ LockKey(key) \in DOMAIN rds /\ ~EntryOf(c, key))
          => /\ LockKey(key) \in DOMAIN rds'
             /\ rds'[LockKey(key)] = rds[LockKey(key)]]_vars

-----------------------------------------------------------------------------
(* MemoryStore called directly: Get and Set of any key, with any response   *)
(* and TTL, in any order, with the sweep and the clock running              *)

SKeys == {"a", "b"}

SResponses ==
    {[StatusCode |-> c, Headers |-> {}, Body |-> "x", Timestamp |-> 0] : c \in HandlerCodes}

STTLs == 1..ConfigTTL

NoGet == [key |-> "", at |-> 0, res |-> NotFound]

\* set: per key, the response of the last Set call;  got: the last Get call
InitStore ==
    /\ MwIdle
    /\ KfIdle
    /\ RdIdle
    /\ ms = [set |-> <<>>, got |-> NoGet]

\* Set(key, response, ttl)
StoreSet(key, response, ttl) ==
    /\ data' = MemSet(data, key, response, ttl, now)
    /\ stored' = [k \in DOMAIN stored \cup {key} |->
                    IF k = key THEN now + ttl ELSE stored[k]]
    /\ ms' = [ms EXCEPT !.set = [k \in DOMAIN ms.set \cup {key} |->
                                   IF k = key THEN response ELSE ms.set[k]]]
    /\ UNCHANGED <<cfg, now, locks, pc, rq, fullKey, gor, w, rec, cached, invoked,
                   hist, kf, rds, rcl>>

\* Get(key)
StoreGet(key) ==
    /\ ms' = [ms EXCEPT !.got = [key |-> key, at |-> now, res |-> MemGet(data, key, now)]]
    /\ UNCHANGED <<cfg, now, data, locks, pc, rq, fullKey, gor, w, rec, cached,
                   invoked, hist, stored, kf, rds, rcl>>

NextStore ==
    \/ \E key \in SKeys, response \in SResponses, ttl \in STTLs :
          StoreSet(key, response, ttl)
    \/ \E key \in SKeys : StoreGet(key)
    \/ Cleanup
    \/ Tick

SpecStore == InitStore /\ [][NextStore]_vars

\* what Get(key) has to return: the response of the last Set of the key while
\* its expiry (time of that Set plus its ttl) has not passed, NotFound otherwise
Expected(key) ==
    IF key \in DOMAIN stored /\ ~(now > stored[key])
    THEN [found |-> TRUE, response |-> ms.set[key]]
    ELSE NotFound

\* C18: Get(k) returns NotFound for a key never Set and for a key whose
\* expiry has passed, swept or not, and the response of the most recent
\* Set(k) while the expiry has not passed; in every state, and at every Get.
C18_GetHonoursExpiry ==
    /\ [](\A key \in SKeys : MemGet(data, key, now) = Expected(key))
    /\ [][ms'.got # ms.got => ms'.got.res = Expected(ms'.got.key)]_vars

C18_Witness ==
    /\ ms.got.at = now
    /\ ms.got.key \in DOMAIN data
    /\ Expired(data[ms.got.key], now)
    /\ ~ms.got.res.found
    /\ \E key \in DOMAIN data :
          /\ MemGet(data, key, now).found
          /\ MemGet(data, key, now).response.StatusCode = StatusInternalServerError

\* a pass of the sweep: entries go, no Set or Get is made, the clock stands
SweepStep == data' # data /\ ms' = ms /\ stored' = stored /\ now' = now

\* C21: a pass of the sweep removes exactly the entries whose expiry has
\* passed and leaves every other entry as it is, and for every key Get
\* returns the same just before and just after the pass.
C21_SweepInvisible ==
    [][SweepStep =>
          /\ DOMAIN data' = {k \in DOMAIN data : ~(now > data[k].expiresAt)}
          /\ \A k \in DOMAIN data' : data'[k] = data[k]
          /\ \A key \in SKeys : MemGet(data', key, now') = MemGet(data, key, now)
          /\ \A key \in SKeys : MemGet(data', key, now') = Expected(key)]_vars

\* after a pass that removed one key and kept the other, a Get of each
C21_Witness ==
    \E swept, kept \in SKeys :
        /\ swept \in DOMAIN stored /\ swept \notin DOMAIN data
        /\ kept \in DOMAIN data /\ now = data[kept].expiresAt
        /\ ms.got.at = now /\ ms.got.key = kept /\ ms.got.res.found

====
